---------------------------- MODULE Spec2Model ----------------------------
(***************************************************************************)
(* Model of the TTS text preprocessor (tts_preprocessor.py) and of the     *)
(* TTS bookkeeping of PerformanceSession (performance_monitor.py).         *)
(*                                                                         *)
(* A Python str is a sequence of characters; a character is a one-element  *)
(* TLA+ string.  Characters outside ASCII carry their code point as name   *)
(* ("U+FF09" is the full-width right parenthesis).                         *)
(***************************************************************************)
EXTENDS Integers, Sequences, FiniteSets, TLC

VARIABLES
    pc,                 \* position inside the function under execution
    arg,                \* the text the function was called with
    text,               \* local `text` (reassigned by tts_filter and filter_special_formatting)
    filtered_text,      \* local `filtered_text` of _filter_nested / filter_numbered_lists
    idx,                \* position of the running `for` loop (1-based), 0 outside a loop
    left, right,        \* _filter_nested: the delimiter pair
    depth,              \* _filter_nested: depth
    result,             \* _filter_nested: result (list of characters)
    remove_special_char,    \* tts_filter: the five stage flags
    ignore_brackets,
    ignore_parentheses,
    ignore_asterisks,
    ignore_angle_brackets,
    translator,         \* tts_filter: the translator, or NoTranslator
    failed,             \* tts_filter: the stages whose call raised (history)
    log,                \* tts_filter: the records given to the logger by the handlers
    protected_patterns, \* filter_special_formatting: list of (placeholder, original)
    protected_counter,  \* filter_special_formatting: the nonlocal counter
    tts_start_time,     \* PerformanceSession fields (None is NoTime)
    tts_end_time,
    tts_calls,
    total_tts_time,
    metrics,            \* the dict finalize() returned (its "tts_latency_ms"), or NoTime
    now,                \* the value time.perf_counter() returns next
    calls,              \* history: the methods called on the session, in order
    additions           \* history: number of durations added to total_tts_time

nestedVars == <<left, right, depth, result>>

ttsVars == <<remove_special_char, ignore_brackets, ignore_parentheses,
             ignore_asterisks, ignore_angle_brackets, translator, failed, log>>

fmtVars == <<protected_patterns, protected_counter>>

sessionVars == <<tts_start_time, tts_end_time, tts_calls, total_tts_time,
                 metrics, now, calls, additions>>

vars == <<pc, arg, text, filtered_text, idx, nestedVars, ttsVars, fmtVars, sessionVars>>

\* What the actions of one function leave alone: the state of the others.
nestedFrame == <<ttsVars, fmtVars, sessionVars>>

ttsFrame == <<filtered_text, idx, nestedVars, fmtVars, sessionVars>>

fmtFrame == <<filtered_text, nestedVars, ttsVars, sessionVars>>

listFrame == <<idx, nestedVars, ttsVars, fmtVars, sessionVars>>

sessionFrame == <<pc, arg, text, filtered_text, idx, nestedVars, ttsVars, fmtVars>>

(***************************************************************************)
(* Bounds of the model.                                                    *)
(***************************************************************************)
MaxLen == 4

MaxTtsLen == 2

MaxFmtLen == 4

MaxListLen == 4

MaxCalls == 4

MaxClock == 3

(***************************************************************************)
(* Values and helpers shared by the functions.                             *)
(***************************************************************************)
\* A value that is not a str (None): _filter_nested rejects it.  It is kept
\* apart from every str by holding an element that is no character.
NoneValue == <<"None">>

\* str.isspace() / the regex class \s, on the characters the model uses.
Whitespace == {" ", "\n", "\t"}

IsSpace(c) == c \in Whitespace

\* All sequences over S of length 0..n.
SeqsUpTo(S, n) == UNION {[1..k -> S] : k \in 0..n}

\* First position >= i of s that holds no whitespace (Len(s)+1 when none).
RECURSIVE SkipSpace(_, _)
SkipSpace(s, i) ==
    IF i <= Len(s) /\ IsSpace(s[i]) THEN SkipSpace(s, i + 1) ELSE i

\* re.sub(r"\s+", " ", s): every maximal run of whitespace becomes one space.
RECURSIVE CollapseFrom(_, _)
CollapseFrom(s, i) ==
    IF i > Len(s) THEN <<>>
    ELSE IF IsSpace(s[i]) THEN <<" ">> \o CollapseFrom(s, SkipSpace(s, i))
    ELSE <<s[i]>> \o CollapseFrom(s, i + 1)

CollapseSpaces(s) == CollapseFrom(s, 1)

\* str.strip(): leading and trailing whitespace removed.
RECURSIVE LastNonSpace(_, _)
LastNonSpace(s, j) ==
    IF j >= 1 /\ IsSpace(s[j]) THEN LastNonSpace(s, j - 1) ELSE j

Strip(s) ==
    LET a == SkipSpace(s, 1)
        b == LastNonSpace(s, Len(s))
    IN  IF a > b THEN <<>> ELSE SubSeq(s, a, b)

\* re.sub(r"\s+", " ", s).strip()
NormaliseSpaces(s) == Strip(CollapseSpaces(s))

(***************************************************************************)
(* _filter_nested(text, left, right)                                       *)
(***************************************************************************)
\* The three instantiations: filter_brackets, filter_parentheses,
\* filter_angle_brackets.
DelimiterPairs == {<<"[", "]">>, <<"(", ")">>, <<"<", ">">>}

\* A plausible slip: the closing delimiter always decrements.
ScanCharUnguarded(d, res, char, l, r) ==
    IF char = l THEN [depth |-> d + 1, result |-> res]
    ELSE IF char = r THEN [depth |-> d - 1, result |-> res]
    ELSE [depth |-> d, result |-> IF d = 0 THEN Append(res, char) ELSE res]

\* A plausible slip: the delimiters themselves are emitted at depth 0.
ScanCharKeepsDelims(d, res, char, l, r) ==
    IF char = l THEN [depth |-> d + 1, result |-> res]
    ELSE IF char = r
         THEN [depth |-> IF d > 0 THEN d - 1 ELSE d,
               result |-> IF d = 0 THEN Append(res, char) ELSE res]
    ELSE [depth |-> d, result |-> IF d = 0 THEN Append(res, char) ELSE res]

\* One iteration of `for char in text`: the if / elif / else of the body.
ScanChar(d, res, char, l, r) ==
    IF char = l THEN [depth |-> d + 1, result |-> res]
    ELSE IF char = r
         THEN [depth |-> IF d > 0 THEN d - 1 ELSE d, result |-> res]
    ELSE [depth |-> d, result |-> IF d = 0 THEN Append(res, char) ELSE res]

\* The whole loop, from position i with the given depth and result.
RECURSIVE ScanFrom(_, _, _, _, _, _)
ScanFrom(s, i, d, res, l, r) ==
    IF i > Len(s) THEN res
    ELSE LET st == ScanChar(d, res, s[i], l, r)
         IN  ScanFrom(s, i + 1, st.depth, st.result, l, r)

\* _filter_nested as a function of a str (the dispatcher's stages use it).
\* The name drops the leading underscore of the source.
filter_nested(s, l, r) ==
    IF s = <<>> THEN s ELSE NormaliseSpaces(ScanFrom(s, 1, 0, <<>>, l, r))

filter_brackets(s) == filter_nested(s, "[", "]")

filter_parentheses(s) == filter_nested(s, "(", ")")

filter_angle_brackets(s) == filter_nested(s, "<", ">")

\* The texts given to _filter_nested: every text of at most MaxLen characters
\* over a letter, two kinds of whitespace, the pair in use and a delimiter of
\* another pair, and the texts the documentation names.
NestedAlphabet(l, r) == {"a", " ", "\n", l, r, IF l = "[" THEN "(" ELSE "["}

ExampleNested == <<"a", "[", "b", "[", "c", "]", "d", "]", "e">>

ExampleUnclosed == <<"x", "(", "y">>

ExampleStrayCloser == <<"a", ">", "b", "<", "c", ">", "d">>

NestedInputs(l, r) ==
    SeqsUpTo(NestedAlphabet(l, r), MaxLen)
        \cup {ExampleNested, ExampleUnclosed, ExampleStrayCloser, NoneValue}

\* The state of the other functions while no call of them is modelled.
NestedIdle ==
    /\ left = ""
    /\ right = ""
    /\ depth = 0
    /\ result = <<>>

FmtIdle ==
    /\ protected_patterns = <<>>
    /\ protected_counter = 0

\* None in a field that holds a time (times are not negative).
NoTime == -1

SessionIdle ==
    /\ tts_start_time = NoTime
    /\ tts_end_time = NoTime
    /\ tts_calls = 0
    /\ total_tts_time = 0
    /\ metrics = NoTime
    /\ now = 0
    /\ calls = <<>>
    /\ additions = 0

TtsIdle ==
    /\ remove_special_char = FALSE
    /\ ignore_brackets = FALSE
    /\ ignore_parentheses = FALSE
    /\ ignore_asterisks = FALSE
    /\ ignore_angle_brackets = FALSE
    /\ translator = "none"
    /\ failed = {}
    /\ log = <<>>

InitNested ==
    /\ TtsIdle
    /\ FmtIdle
    /\ SessionIdle
    /\ pc = "nested_entry"
    /\ \E p \in DelimiterPairs :
          /\ left = p[1]
          /\ right = p[2]
          /\ text \in NestedInputs(p[1], p[2])
    /\ arg = text
    /\ filtered_text = <<>>
    /\ idx = 0
    /\ depth = 0
    /\ result = <<>>

\* `if not isinstance(text, str): raise TypeError(...)`
NestedTypeError ==
    /\ pc = "nested_entry"
    /\ text = NoneValue
    /\ pc' = "nested_raised"
    /\ UNCHANGED <<arg, text, filtered_text, idx, nestedVars, nestedFrame>>

\* `if not text: return text`
NestedEmpty ==
    /\ pc = "nested_entry"
    /\ text = <<>>
    /\ filtered_text' = text
    /\ pc' = "nested_done"
    /\ UNCHANGED <<arg, text, idx, nestedVars, nestedFrame>>

\* `result = []`, `depth = 0`, and the loop is entered.
NestedBegin ==
    /\ pc = "nested_entry"
    /\ text # NoneValue
    /\ text # <<>>
    /\ result' = <<>>
    /\ depth' = 0
    /\ idx' = 1
    /\ pc' = "nested_scan"
    /\ UNCHANGED <<arg, text, filtered_text, left, right, nestedFrame>>

\* One iteration of the loop.
NestedStep ==
    /\ pc = "nested_scan"
    /\ idx <= Len(text)
    /\ LET st == ScanChar(depth, result, text[idx], left, right)
       IN  /\ depth' = st.depth
           /\ result' = st.result
    /\ idx' = idx + 1
    /\ UNCHANGED <<pc, arg, text, filtered_text, left, right, nestedFrame>>

\* `filtered_text = "".join(result)`
NestedJoin ==
    /\ pc = "nested_scan"
    /\ idx > Len(text)
    /\ filtered_text' = result
    /\ pc' = "nested_joined"
    /\ UNCHANGED <<arg, text, idx, nestedVars, nestedFrame>>

\* `filtered_text = re.sub(r"\s+", " ", filtered_text).strip()`, `return`
NestedNormalise ==
    /\ pc = "nested_joined"
    /\ filtered_text' = NormaliseSpaces(filtered_text)
    /\ pc' = "nested_done"
    /\ UNCHANGED <<arg, text, idx, nestedVars, nestedFrame>>

NextNested ==
    \/ NestedTypeError
    \/ NestedEmpty
    \/ NestedBegin
    \/ NestedStep
    \/ NestedJoin
    \/ NestedNormalise

SpecNested == InitNested /\ [][NextNested]_vars

(***************************************************************************)
(* Properties of _filter_nested, stated for SpecNested.                    *)
(***************************************************************************)
\* Occurrences of character c among the first k characters of s.
RECURSIVE CountIn(_, _, _)
CountIn(s, k, c) ==
    IF k = 0 THEN 0 ELSE CountIn(s, k - 1, c) + (IF s[k] = c THEN 1 ELSE 0)

\* Openers minus closers among the first k characters.
Balance(s, k, l, r) == CountIn(s, k, l) - CountIn(s, k, r)

\* The nesting depth after the first k characters, stated without the loop:
\* the largest surplus of openers over closers in a suffix of the prefix.
OpenDepth(s, k, l, r) ==
    LET surplus == {Balance(s, k, l, r) - Balance(s, j, l, r) : j \in 0..k}
    IN  CHOOSE m \in surplus : \A n \in surplus : n <= m

\* The non-delimiter characters of s[i..] that stand at nesting depth 0.
RECURSIVE KeptFrom(_, _, _, _)
KeptFrom(s, i, l, r) ==
    IF i > Len(s) THEN <<>>
    ELSE (IF s[i] \notin {l, r} /\ OpenDepth(s, i - 1, l, r) = 0
          THEN <<s[i]>> ELSE <<>>) \o KeptFrom(s, i + 1, l, r)

\* C4: while _filter_nested scans any text for any of the three pairs the
\* depth counter is never negative, and reading a closing delimiter at depth
\* 0 leaves the counter at 0 and the scan goes on with the next character.
C4_DepthNeverNegative ==
    /\ [](depth >= 0)
    /\ [][(/\ pc = "nested_scan"
           /\ idx <= Len(text)
           /\ text[idx] = right
           /\ depth = 0)
          => (depth' = 0 /\ pc' = "nested_scan" /\ idx' = idx + 1)]_vars

\* A closing delimiter has just been read at depth 0 and the scan continues.
C4_Witness ==
    /\ pc = "nested_scan"
    /\ idx >= 3
    /\ idx <= Len(text)
    /\ text[idx - 1] = right
    /\ OpenDepth(text, idx - 2, left, right) = 0
    /\ depth = 0

\* C5: before whitespace normalisation the output of _filter_nested is exactly
\* the non-delimiter characters read at depth 0: no delimiter is emitted, an
\* opener that is never closed removes everything up to the end of the text,
\* "a[b[c]d]e" gives "ae" and "x(y" gives "x".
C5_KeepsDepthZeroCharacters ==
    /\ pc = "nested_joined" =>
          /\ filtered_text = KeptFrom(text, 1, left, right)
          /\ \A i \in 1..Len(filtered_text) : filtered_text[i] \notin {left, right}
          /\ \A k \in 1..Len(text) :
                (/\ text[k] = left
                 /\ OpenDepth(text, k - 1, left, right) = 0
                 /\ \A j \in (k + 1)..Len(text) : text[j] # right)
                => filtered_text = KeptFrom(SubSeq(text, 1, k - 1), 1, left, right)
    /\ (pc = "nested_done" /\ arg = ExampleNested /\ left = "[")
          => filtered_text = <<"a", "e">>
    /\ (pc = "nested_done" /\ arg = ExampleUnclosed /\ left = "(")
          => filtered_text = <<"x">>

\* The scan of a text with an empty span, an unclosed opener and characters
\* on both sides of them has been joined.
C5_Witness ==
    /\ pc = "nested_joined"
    /\ Len(text) = MaxLen
    /\ text[1] = "a"
    /\ text[2] = left
    /\ text[3] = "a"
    /\ filtered_text = <<"a">>

\* C6 as stated: angle-bracket stripping of "a>b<c>d" yields "ab d".
C6_StrayCloserGivesAbSpaceD ==
    (pc = "nested_done" /\ arg = ExampleStrayCloser /\ left = "<")
        => filtered_text = <<"a", "b", " ", "d">>

\* C6, amended: angle-bracket stripping of "a>b<c>d" yields "abd" (no space
\* takes the place of the removed span), and the stray '>' raises nothing.
C6_StrayCloserGivesAbd ==
    (arg = ExampleStrayCloser /\ left = "<") =>
        /\ pc # "nested_raised"
        /\ pc = "nested_done" => filtered_text = <<"a", "b", "d">>

\* filter_angle_brackets("a>b<c>d") has returned.
C6_Witness ==
    /\ pc = "nested_done"
    /\ arg = ExampleStrayCloser
    /\ left = "<"
    /\ filtered_text = <<"a", "b", "d">>

(***************************************************************************)
(* filter_asterisks(text)                                                  *)
(***************************************************************************)
\* First position >= i of s that holds no asterisk.
RECURSIVE SkipStars(_, _)
SkipStars(s, i) ==
    IF i <= Len(s) /\ s[i] = "*" THEN SkipStars(s, i + 1) ELSE i

\* First position >= i of s that `((?!\*).)` cannot consume: an asterisk, a
\* newline (`.` matches none) or the end of s.
RECURSIVE SkipInterior(_, _)
SkipInterior(s, i) ==
    IF i <= Len(s) /\ s[i] \notin {"*", "\n"} THEN SkipInterior(s, i + 1) ELSE i

\* The regex \*{1,}((?!\*).)*?\*{1,} tried at position i: the position after
\* the match, 0 when there is none.  The opening run is taken whole; the lazy
\* interior stops at the first asterisk, where the closing run is taken
\* whole.  When no closing run follows on the line, backtracking gives one
\* asterisk of a run of two or more to the closing \*{1,}.
AsteriskSpanEnd(s, i) ==
    IF s[i] # "*" THEN 0
    ELSE LET e == SkipStars(s, i)
             j == SkipInterior(s, e)
         IN  IF j <= Len(s) /\ s[j] = "*" THEN SkipStars(s, j)
             ELSE IF e - i >= 2 THEN e
             ELSE 0

\* re.sub(r"\*{1,}((?!\*).)*?\*{1,}", "", s)
RECURSIVE RemoveAsteriskSpansFrom(_, _)
RemoveAsteriskSpansFrom(s, i) ==
    IF i > Len(s) THEN <<>>
    ELSE LET e == AsteriskSpanEnd(s, i)
         IN  IF e > 0 THEN RemoveAsteriskSpansFrom(s, e)
             ELSE <<s[i]>> \o RemoveAsteriskSpansFrom(s, i + 1)

RemoveAsteriskSpans(s) == RemoveAsteriskSpansFrom(s, 1)

filter_asterisks(s) == NormaliseSpaces(RemoveAsteriskSpans(s))

(***************************************************************************)
(* remove_special_characters(text)                                         *)
(***************************************************************************)
\* unicodedata.category(char) starts with "L", "N", "P", on the characters of
\* the model.  Everything else ("<", ">", "+" are Sm, the emoji U+1F600 and
\* the trade mark sign U+2122 are So) is kept only when it is whitespace.
Letters == {"a", "b", "c", "d", "e", "x", "y", "A", "T", "M", "U+FF21",
            "L", "I", "V", "E", "D", "P", "R", "O", "C"}

Numbers == {"0", "1", "2"}

Punctuation == {"*", "[", "]", "(", ")", "#", "-", "_", ".", "!",
                "U+FF08", "U+FF09", "U+FF0E", "U+3001", "U+3002"}

is_valid_char(char) ==
    \/ char \in Letters
    \/ char \in Numbers
    \/ char \in Punctuation
    \/ IsSpace(char)

\* unicodedata.normalize("NFKC", c) of one character.  No character of the
\* model is a combining mark, so no two characters compose and the
\* normal form of a text is the normal forms of its characters in a row.
NormaliseChar(c) ==
    CASE c = "U+2122" -> <<"T", "M">>
      [] c = "U+FF21" -> <<"A">>
      [] c = "U+FF08" -> <<"(">>
      [] c = "U+FF09" -> <<")">>
      [] c = "U+FF0E" -> <<".">>
      [] OTHER -> <<c>>

RECURSIVE NormaliseFrom(_, _)
NormaliseFrom(s, i) ==
    IF i > Len(s) THEN <<>> ELSE NormaliseChar(s[i]) \o NormaliseFrom(s, i + 1)

\* unicodedata.normalize("NFKC", s)
NFKC(s) == NormaliseFrom(s, 1)

remove_special_characters(s) == SelectSeq(NFKC(s), is_valid_char)

(***************************************************************************)
(* tts_filter(text, flags..., translator)                                  *)
(***************************************************************************)
NoTranslator == "none"

\* The translators of the model: one that maps lower case to upper case.
Translators == {"upper"}

UpperChar(c) == IF c = "a" THEN "A" ELSE IF c = "e" THEN "E" ELSE c

\* translator.translate(s)
Translate(tr, s) == [i \in 1..Len(s) |-> UpperChar(s[i])]

\* A plausible slip: brackets are stripped before the asterisk spans.
StageOrderBracketsFirst ==
    <<"brackets", "asterisks", "parentheses", "angle_brackets", "special_char",
      "translate">>

\* The stages in the order of the `if` statements of tts_filter.
StageOrder ==
    <<"asterisks", "brackets", "parentheses", "angle_brackets", "special_char",
      "translate">>

Stages == {StageOrder[i] : i \in 1..Len(StageOrder)}

\* The pc after the `if` statement of a stage.
AfterStage(stage) ==
    LET i == CHOOSE k \in 1..Len(StageOrder) : StageOrder[k] = stage
    IN  IF i < Len(StageOrder) THEN StageOrder[i + 1] ELSE "tts_return"

\* The condition of the `if` statement of a stage.
Enabled(stage) ==
    CASE stage = "asterisks" -> ignore_asterisks
      [] stage = "brackets" -> ignore_brackets
      [] stage = "parentheses" -> ignore_parentheses
      [] stage = "angle_brackets" -> ignore_angle_brackets
      [] stage = "special_char" -> remove_special_char
      [] stage = "translate" -> translator # NoTranslator

\* The call in the `try` block of a stage.
StageCall(stage, s) ==
    CASE stage = "asterisks" -> filter_asterisks(s)
      [] stage = "brackets" -> filter_brackets(s)
      [] stage = "parentheses" -> filter_parentheses(s)
      [] stage = "angle_brackets" -> filter_angle_brackets(s)
      [] stage = "special_char" -> remove_special_characters(s)
      [] stage = "translate" -> Translate(translator, s)

\* A plausible slip: the translation is called outside any try block.
HasHandlerButTranslate(stage) == stage # "translate"

\* Whether the call of a stage stands in a try block with `except Exception`.
HasHandler(stage) == TRUE

\* The severity of the first record a stage's handler logs.
Severity(stage) == IF stage = "translate" THEN "critical" ELSE "warning"

\* The texts given to tts_filter.
TtsAlphabet == {"a", " ", "*", "[", "]", "(", "U+1F600"}

ExampleMixed ==
    <<"*", "a", "*", " ", "[", "a", "]", " ", "(", "a", ")", " ", "<", "a", ">",
      " ", "U+2122", "a">>

ExampleOrder == <<"*", "[", "*", "]", "a">>

TtsInputs == SeqsUpTo(TtsAlphabet, MaxTtsLen) \cup {ExampleMixed, ExampleOrder}

InitTts ==
    /\ NestedIdle
    /\ FmtIdle
    /\ SessionIdle
    /\ idx = 0
    /\ pc = StageOrder[1]
    /\ text \in TtsInputs
    /\ arg = text
    /\ filtered_text = <<>>
    /\ remove_special_char \in BOOLEAN
    /\ ignore_brackets \in BOOLEAN
    /\ ignore_parentheses \in BOOLEAN
    /\ ignore_asterisks \in BOOLEAN
    /\ ignore_angle_brackets \in BOOLEAN
    /\ translator \in {NoTranslator} \cup Translators
    /\ failed = {}
    /\ log = <<>>

\* The `if` of a disabled stage: nothing is done.
TtsSkip ==
    /\ pc \in Stages
    /\ ~Enabled(pc)
    /\ pc' = AfterStage(pc)
    /\ UNCHANGED <<arg, text, ttsVars, ttsFrame>>

\* The call of an enabled stage returns: `text = <stage>(text)`.
TtsApply ==
    /\ pc \in Stages
    /\ Enabled(pc)
    /\ text' = StageCall(pc, text)
    /\ pc' = AfterStage(pc)
    /\ UNCHANGED <<arg, ttsVars, ttsFrame>>

\* The call of an enabled stage raises an Exception: the handler logs the
\* error and the text, and tts_filter goes on; text was not assigned.
TtsRaise ==
    /\ pc \in Stages
    /\ Enabled(pc)
    /\ failed' = failed \cup {pc}
    /\ IF HasHandler(pc)
       THEN /\ log' = Append(log, [level |-> Severity(pc), stage |-> pc, text |-> text])
            /\ pc' = AfterStage(pc)
       ELSE /\ log' = log
            /\ pc' = "tts_propagated"
    /\ UNCHANGED <<arg, text, remove_special_char, ignore_brackets,
                   ignore_parentheses, ignore_asterisks, ignore_angle_brackets,
                   translator, ttsFrame>>

\* `return text`
TtsReturn ==
    /\ pc = "tts_return"
    /\ pc' = "tts_done"
    /\ UNCHANGED <<arg, text, ttsVars, ttsFrame>>

NextTts ==
    \/ TtsSkip
    \/ TtsApply
    \/ TtsRaise
    \/ TtsReturn

SpecTts == InitTts /\ [][NextTts]_vars

(***************************************************************************)
(* Properties of tts_filter, stated for SpecTts.                           *)
(***************************************************************************)
\* The order the documentation fixes for the stages.
ClaimedOrder ==
    <<"asterisks", "brackets", "parentheses", "angle_brackets", "special_char",
      "translate">>

\* The number of stages of ClaimedOrder that lie behind position p of
\* tts_filter.
StagesBehind(p) ==
    IF p \in {"tts_return", "tts_done", "tts_propagated"} THEN Len(ClaimedOrder)
    ELSE (CHOOSE k \in 1..Len(ClaimedOrder) : ClaimedOrder[k] = p) - 1

\* The text after the first k stages of ClaimedOrder, each applied when it is
\* enabled and not in skip, and passing the text through otherwise.
RECURSIVE AfterStages(_, _, _)
AfterStages(s, k, skip) ==
    IF k = 0 THEN s
    ELSE LET before == AfterStages(s, k - 1, skip)
             stage == ClaimedOrder[k]
         IN  IF Enabled(stage) /\ stage \notin skip
             THEN StageCall(stage, before)
             ELSE before

\* C2: when no stage fails tts_filter returns the result of the enabled
\* stages applied in the order asterisks, brackets, parentheses, angle
\* brackets, Unicode filter, translation; a disabled stage passes the text
\* through, so with every flag false and no translator the text is returned
\* as given.
C2_StagesInFixedOrder ==
    (pc = "tts_done" /\ failed = {}) =>
        /\ text = AfterStages(arg, Len(ClaimedOrder), {})
        /\ (\A stage \in Stages : ~Enabled(stage)) => text = arg

\* tts_filter has returned with every stage enabled and none failing, on a
\* text every stage changes.
C2_Witness ==
    /\ pc = "tts_done"
    /\ failed = {}
    /\ \A stage \in Stages : Enabled(stage)
    /\ arg = ExampleMixed
    /\ text = <<"T", "M", "A">>

\* C3: whichever enabled stages raise, tts_filter raises nothing to its
\* caller; the text at every position is the text the stages that did not
\* fail produce in order (a failing stage is skipped, its successor receives
\* the text as it stood before it, later stages still run), a failing
\* translation returns the text before translation, and each failure is
\* logged with that text.
C3_FailuresAreSkipped ==
    /\ pc # "tts_propagated"
    /\ pc \in Stages \cup {"tts_return", "tts_done"} =>
          /\ text = AfterStages(arg, StagesBehind(pc), failed)
          /\ Len(log) = Cardinality(failed)
          /\ \A i \in 1..Len(log) :
                /\ log[i].stage \in failed
                /\ log[i].text = AfterStages(arg, StagesBehind(log[i].stage), failed)
                /\ log[i].level = IF log[i].stage = "translate"
                                  THEN "critical" ELSE "warning"
    /\ (pc = "tts_done" /\ "translate" \in failed) =>
          text = AfterStages(arg, Len(ClaimedOrder) - 1, failed)

\* tts_filter has returned although the first stage and the translation
\* raised, and the stages between them have changed the text.
C3_Witness ==
    /\ pc = "tts_done"
    /\ failed = {"asterisks", "translate"}
    /\ \A stage \in Stages : Enabled(stage)
    /\ arg = ExampleMixed
    /\ text = <<"*", "a", "*", " ", "T", "M", "a">>

(***************************************************************************)
(* filter_special_formatting(text)                                         *)
(***************************************************************************)
\* str(n) of a counter.
Digit(d) ==
    CASE d = 0 -> "0" [] d = 1 -> "1" [] d = 2 -> "2" [] d = 3 -> "3"
      [] d = 4 -> "4" [] d = 5 -> "5" [] d = 6 -> "6" [] d = 7 -> "7"
      [] d = 8 -> "8" [] d = 9 -> "9"

RECURSIVE Decimal(_)
Decimal(n) ==
    IF n < 10 THEN <<Digit(n)>> ELSE Decimal(n \div 10) \o <<Digit(n % 10)>>

\* f"__LIVE2D_PROTECT_{protected_counter}__"
Placeholder(n) ==
    <<"_", "_", "L", "I", "V", "E", "2", "D", "_",
      "P", "R", "O", "T", "E", "C", "T", "_">> \o Decimal(n) \o <<"_", "_">>

\* First position >= i of s that holds "]" (Len(s)+1 when none).
RECURSIVE NextCloser(_, _)
NextCloser(s, i) ==
    IF i <= Len(s) /\ s[i] # "]" THEN NextCloser(s, i + 1) ELSE i

\* The regex \[[^\]]+\] tried at position i: the position after the match,
\* 0 when there is none.
BracketSpanEnd(s, i) ==
    IF s[i] # "[" THEN 0
    ELSE LET j == NextCloser(s, i + 1)
         IN  IF j <= Len(s) /\ j >= i + 2 THEN j + 1 ELSE 0

\* re.sub(r"\[[^\]]+\]", protect_live2d, s) from position i on, with the
\* state of the closure: the text built, the list and the counter.
RECURSIVE ProtectFrom(_, _, _, _)
ProtectFrom(s, i, patterns, counter) ==
    IF i > Len(s) THEN [text |-> <<>>, patterns |-> patterns, counter |-> counter]
    ELSE LET e == BracketSpanEnd(s, i)
         IN  IF e > 0
             THEN LET rest == ProtectFrom(s, e,
                                  Append(patterns, <<Placeholder(counter), SubSeq(s, i, e - 1)>>),
                                  counter + 1)
                  IN  [rest EXCEPT !.text = Placeholder(counter) \o @]
             ELSE LET rest == ProtectFrom(s, i + 1, patterns, counter)
                  IN  [rest EXCEPT !.text = <<s[i]>> \o @]

\* The regex (?<!\*)\*(?!\*) at position i: an asterisk with no asterisk on
\* either side.
LoneAsteriskEnd(s, i) ==
    IF /\ s[i] = "*"
       /\ (i = 1 \/ s[i - 1] # "*")
       /\ (i = Len(s) \/ s[i + 1] # "*")
    THEN i + 1 ELSE 0

\* First position >= i of s that holds no "#".
RECURSIVE SkipHashes(_, _)
SkipHashes(s, i) ==
    IF i <= Len(s) /\ s[i] = "#" THEN SkipHashes(s, i + 1) ELSE i

\* The regex #{1,6}\s+ tried at position i: at most six "#" up to the
\* whitespace, which is taken whole.
HeaderEnd(s, i) ==
    IF s[i] # "#" THEN 0
    ELSE LET e == SkipHashes(s, i)
         IN  IF e - i <= 6 /\ e <= Len(s) /\ IsSpace(s[e])
             THEN SkipSpace(s, e) ELSE 0

\* `^` under re.MULTILINE: the start of s or the position after a newline.
AtLineStart(s, i) == i = 1 \/ s[i - 1] = "\n"

\* The regex ^[-+]\s+ (re.MULTILINE) tried at position i.
BulletEnd(s, i) ==
    IF /\ AtLineStart(s, i)
       /\ s[i] \in {"-", "+"}
       /\ i + 1 <= Len(s)
       /\ IsSpace(s[i + 1])
    THEN SkipSpace(s, i + 1) ELSE 0

\* The three deleting patterns of filter_special_formatting that follow the
\* asterisk spans, tried at position i: the position after the match, 0 for
\* none.
FmtMatchEnd(pattern, s, i) ==
    CASE pattern = "lone_asterisk" -> LoneAsteriskEnd(s, i)
      [] pattern = "header" -> HeaderEnd(s, i)
      [] pattern = "bullet" -> BulletEnd(s, i)

\* re.sub(pattern, "", s) from position i on: the matches are looked for
\* from left to right and do not overlap; none of the patterns matches the
\* empty string.
RECURSIVE FmtDeleteFrom(_, _, _)
FmtDeleteFrom(pattern, s, i) ==
    IF i > Len(s) THEN <<>>
    ELSE LET e == FmtMatchEnd(pattern, s, i)
         IN  IF e > 0 THEN FmtDeleteFrom(pattern, s, e)
             ELSE <<s[i]>> \o FmtDeleteFrom(pattern, s, i + 1)

RemoveLoneAsterisks(s) == FmtDeleteFrom("lone_asterisk", s, 1)

RemoveHeaders(s) == FmtDeleteFrom("header", s, 1)

RemoveBullets(s) == FmtDeleteFrom("bullet", s, 1)

\* Whether old stands in s at position i.
StartsWithAt(s, i, old) ==
    /\ i + Len(old) - 1 <= Len(s)
    /\ SubSeq(s, i, i + Len(old) - 1) = old

\* s.replace(old, new) from position i on (old is not empty).
RECURSIVE ReplaceFrom(_, _, _, _)
ReplaceFrom(s, i, old, new) ==
    IF i > Len(s) THEN <<>>
    ELSE IF StartsWithAt(s, i, old)
         THEN new \o ReplaceFrom(s, i + Len(old), old, new)
    ELSE <<s[i]>> \o ReplaceFrom(s, i + 1, old, new)

Replace(s, old, new) == ReplaceFrom(s, 1, old, new)

\* The texts given to filter_special_formatting: every text of at most
\* MaxFmtLen characters over the characters the rules look at, and longer
\* texts: the one of the documentation, a span between asterisks, and texts
\* that hold a string of the placeholder form.
FmtAlphabet == {"a", " ", "\n", "[", "]", "*", "#", "-"}

ExampleFormatting ==
    <<"[", "s", "m", "i", "l", "e", "]", " ", "*", "h", "a", "p", "p", "y", "*",
      " ", "#", "#", " ", "H", "e", "a", "d", "e", "r", "\n", "-", " ",
      "i", "t", "e", "m">>

ExampleEmphasised == <<"*", "[", "a", "]", "*">>

ExampleSevenHashes == <<"#", "#", "#", "#", "#", "#", "#", " ", "a">>

ExampleLiteralToken == Placeholder(0) \o <<" ", "[", "x", "]">>

ExampleTokenInSpan == <<"[">> \o Placeholder(1) \o <<"]", "[", "b", "]">>

FmtInputs ==
    SeqsUpTo(FmtAlphabet, MaxFmtLen)
        \cup {ExampleFormatting, ExampleEmphasised, ExampleSevenHashes,
              ExampleLiteralToken, ExampleTokenInSpan}

InitFmt ==
    /\ NestedIdle
    /\ TtsIdle
    /\ SessionIdle
    /\ pc = "fmt_protect"
    /\ text \in FmtInputs
    /\ arg = text
    /\ filtered_text = <<>>
    /\ idx = 0
    /\ protected_patterns = <<>>
    /\ protected_counter = 0

\* `text = re.sub(r"\[[^\]]+\]", protect_live2d, text)`
FmtProtect ==
    /\ pc = "fmt_protect"
    /\ LET r == ProtectFrom(text, 1, protected_patterns, protected_counter)
       IN  /\ text' = r.text
           /\ protected_patterns' = r.patterns
           /\ protected_counter' = r.counter
    /\ pc' = "fmt_spans"
    /\ UNCHANGED <<arg, idx, fmtFrame>>

\* `text = re.sub(r"\*{1,}((?!\*).)*?\*{1,}", "", text)`
FmtAsteriskSpans ==
    /\ pc = "fmt_spans"
    /\ text' = RemoveAsteriskSpans(text)
    /\ pc' = "fmt_lone"
    /\ UNCHANGED <<arg, idx, fmtVars, fmtFrame>>

\* `text = re.sub(r"(?<!\*)\*(?!\*)", "", text)`
FmtLoneAsterisks ==
    /\ pc = "fmt_lone"
    /\ text' = RemoveLoneAsterisks(text)
    /\ pc' = "fmt_headers"
    /\ UNCHANGED <<arg, idx, fmtVars, fmtFrame>>

\* `text = re.sub(r"#{1,6}\s+", "", text)`
FmtHeaders ==
    /\ pc = "fmt_headers"
    /\ text' = RemoveHeaders(text)
    /\ pc' = "fmt_bullets"
    /\ UNCHANGED <<arg, idx, fmtVars, fmtFrame>>

\* `text = re.sub(r"^[-+]\s+", "", text, flags=re.MULTILINE)`; the restore
\* loop is entered.
FmtBullets ==
    /\ pc = "fmt_bullets"
    /\ text' = RemoveBullets(text)
    /\ idx' = 1
    /\ pc' = "fmt_restore"
    /\ UNCHANGED <<arg, fmtVars, fmtFrame>>

\* One iteration of `for placeholder, original in protected_patterns`:
\* `text = text.replace(placeholder, original)`
FmtRestore ==
    /\ pc = "fmt_restore"
    /\ idx <= Len(protected_patterns)
    /\ text' = Replace(text, protected_patterns[idx][1], protected_patterns[idx][2])
    /\ idx' = idx + 1
    /\ UNCHANGED <<pc, arg, fmtVars, fmtFrame>>

\* The loop ends: `text = re.sub(r"\s+", " ", text).strip()`, `return text`
FmtNormalise ==
    /\ pc = "fmt_restore"
    /\ idx > Len(protected_patterns)
    /\ text' = NormaliseSpaces(text)
    /\ pc' = "fmt_done"
    /\ UNCHANGED <<arg, idx, fmtVars, fmtFrame>>

NextFmt ==
    \/ FmtProtect
    \/ FmtAsteriskSpans
    \/ FmtLoneAsterisks
    \/ FmtHeaders
    \/ FmtBullets
    \/ FmtRestore
    \/ FmtNormalise

SpecFmt == InitFmt /\ [][NextFmt]_vars

\* filter_special_formatting as a function of a str.
RECURSIVE RestoreFrom(_, _, _)
RestoreFrom(s, patterns, i) ==
    IF i > Len(patterns) THEN s
    ELSE RestoreFrom(Replace(s, patterns[i][1], patterns[i][2]), patterns, i + 1)

filter_special_formatting(s) ==
    LET r == ProtectFrom(s, 1, <<>>, 0)
        cleaned == RemoveBullets(RemoveHeaders(RemoveLoneAsterisks(
                       RemoveAsteriskSpans(r.text))))
    IN  NormaliseSpaces(RestoreFrom(cleaned, r.patterns, 1))

(***************************************************************************)
(* Properties of filter_special_formatting, stated for SpecFmt.            *)
(***************************************************************************)
\* Whether sub stands somewhere in s as a contiguous run.
Occurs(sub, s) == \E k \in 1..(Len(s) - Len(sub) + 1) : StartsWithAt(s, k, sub)

\* The positions of filter_special_formatting behind the protect step.
FmtProtected == {"fmt_spans", "fmt_lone", "fmt_headers", "fmt_bullets",
                 "fmt_restore", "fmt_done"}

\* C1: every bracketed span of the input ('[', one or more characters other
\* than ']', and the next ']') stands unchanged in the text
\* filter_special_formatting returns, whatever stands in or around it.
C1_BracketSpansSurvive ==
    pc = "fmt_done" =>
        \A i \in 1..Len(arg) :
            LET e == BracketSpanEnd(arg, i)
            IN  e > 0 => Occurs(SubSeq(arg, i, e - 1), text)

\* C7: the placeholders of one call are pairwise distinct, none of them
\* stands in the input, and a string of the placeholder form that the input
\* holds is still there in the returned text.
C7_PlaceholdersNeverCollide ==
    /\ pc \in FmtProtected =>
          /\ \A i, j \in 1..Len(protected_patterns) :
                i # j => protected_patterns[i][1] # protected_patterns[j][1]
          /\ \A i \in 1..Len(protected_patterns) :
                ~Occurs(protected_patterns[i][1], arg)
    /\ pc = "fmt_done" =>
          \A n \in 0..1 : Occurs(Placeholder(n), arg) => Occurs(Placeholder(n), text)

(***************************************************************************)
(* filter_numbered_lists(text)                                             *)
(***************************************************************************)
\* The regex class \d on the characters of the model (the full-width digit
\* one, U+FF11, is a decimal digit too).
Digits == {"0", "1", "2", "3", "7", "U+FF11"}

\* First position >= i of s that holds no digit.
RECURSIVE SkipDigits(_, _)
SkipDigits(s, i) ==
    IF i <= Len(s) /\ s[i] \in Digits THEN SkipDigits(s, i + 1) ELSE i

\* The character classes of the three patterns, as the source spells them:
\* [\.．。], [)、] and, around the digits, [（(] and [）)].
DotDelimiters == {".", "U+FF0E", "U+3002"}

ParenDelimiters == {")", "U+3001"}

WrapOpeners == {"U+FF08", "("}

WrapClosers == {"U+FF09", ")"}

\* The regex (?m)^\s*\d+[<delims>]\s* tried at position i: the position
\* after the match, 0 when there is none.  \s* runs over newlines too.
DigitMarkerEnd(s, i, delims) ==
    IF ~AtLineStart(s, i) THEN 0
    ELSE LET a == SkipSpace(s, i)
             b == SkipDigits(s, a)
         IN  IF b > a /\ b <= Len(s) /\ s[b] \in delims
             THEN SkipSpace(s, b + 1) ELSE 0

\* (?m)^\s*\d+[\.．。]\s*
DotMarkerEnd(s, i) == DigitMarkerEnd(s, i, DotDelimiters)

\* (?m)^\s*\d+[)、]\s*
ParenMarkerEnd(s, i) == DigitMarkerEnd(s, i, ParenDelimiters)

\* (?m)^\s*[（(]\d+[）)]\s*
WrappedMarkerEnd(s, i) ==
    IF ~AtLineStart(s, i) THEN 0
    ELSE LET a == SkipSpace(s, i)
             b == SkipDigits(s, a + 1)
         IN  IF /\ a <= Len(s)
                /\ s[a] \in WrapOpeners
                /\ b > a + 1
                /\ b <= Len(s)
                /\ s[b] \in WrapClosers
             THEN SkipSpace(s, b + 1) ELSE 0

\* The three patterns of filter_numbered_lists tried at position i.
MarkerEnd(pattern, s, i) ==
    CASE pattern = "dot" -> DotMarkerEnd(s, i)
      [] pattern = "paren" -> ParenMarkerEnd(s, i)
      [] pattern = "wrapped" -> WrappedMarkerEnd(s, i)

\* re.sub(pattern, "", s) from position i on.
RECURSIVE DeleteMarkersFrom(_, _, _)
DeleteMarkersFrom(pattern, s, i) ==
    IF i > Len(s) THEN <<>>
    ELSE LET e == MarkerEnd(pattern, s, i)
         IN  IF e > 0 THEN DeleteMarkersFrom(pattern, s, e)
             ELSE <<s[i]>> \o DeleteMarkersFrom(pattern, s, i + 1)

RemoveDotMarkers(s) == DeleteMarkersFrom("dot", s, 1)

RemoveParenMarkers(s) == DeleteMarkersFrom("paren", s, 1)

RemoveWrappedMarkers(s) == DeleteMarkersFrom("wrapped", s, 1)

\* filter_numbered_lists as a function of a str.
filter_numbered_lists(s) ==
    NormaliseSpaces(RemoveWrappedMarkers(RemoveParenMarkers(RemoveDotMarkers(s))))

\* The texts given to filter_numbered_lists: every text of at most
\* MaxListLen characters over a digit, ASCII delimiters, a letter and
\* whitespace, and longer texts: the one of the documentation, the examples
\* of the comments in the source, and a marker behind a marker.
ListAlphabet == {"1", ".", ")", "(", "a", " ", "\n"}

ExampleThreeDialects ==
    <<"1", ".", " ", "F", "i", "r", "s", "t", "\n",
      "(", "2", ")", " ", "S", "e", "c", "o", "n", "d", "\n",
      "3", "U+3001", "T", "h", "i", "r", "d">>

ExampleFullWidthDot == <<"2", "U+FF0E", "x", "x", "x">>

ExampleIdeographicStop == <<"3", "U+3002", "x", "x", "x">>

ExampleFullWidthParen == <<"2", "U+FF09", " ", "x">>

ExampleFullWidthWrapped == <<"U+FF08", "7", "U+FF09", "x", "x", "x">>

ExampleMarkerAfterMarker == <<"1", ".", " ", "2", ")", " ", "x">>

ListInputs ==
    SeqsUpTo(ListAlphabet, MaxListLen)
        \cup {ExampleThreeDialects, ExampleFullWidthDot, ExampleIdeographicStop,
              ExampleFullWidthParen, ExampleFullWidthWrapped,
              ExampleMarkerAfterMarker}

InitList ==
    /\ NestedIdle
    /\ TtsIdle
    /\ FmtIdle
    /\ SessionIdle
    /\ pc = "list_entry"
    /\ text \in ListInputs
    /\ arg = text
    /\ filtered_text = <<>>
    /\ idx = 0

\* `filtered_text = text`
ListBegin ==
    /\ pc = "list_entry"
    /\ filtered_text' = text
    /\ pc' = "list_dot"
    /\ UNCHANGED <<arg, text, listFrame>>

\* `filtered_text = re.sub(r"(?m)^\s*\d+[\.．。]\s*", "", filtered_text)`
ListDotMarkers ==
    /\ pc = "list_dot"
    /\ filtered_text' = RemoveDotMarkers(filtered_text)
    /\ pc' = "list_paren"
    /\ UNCHANGED <<arg, text, listFrame>>

\* `filtered_text = re.sub(r"(?m)^\s*\d+[)、]\s*", "", filtered_text)`
ListParenMarkers ==
    /\ pc = "list_paren"
    /\ filtered_text' = RemoveParenMarkers(filtered_text)
    /\ pc' = "list_wrapped"
    /\ UNCHANGED <<arg, text, listFrame>>

\* `filtered_text = re.sub(r"(?m)^\s*[（(]\d+[）)]\s*", "", filtered_text)`
ListWrappedMarkers ==
    /\ pc = "list_wrapped"
    /\ filtered_text' = RemoveWrappedMarkers(filtered_text)
    /\ pc' = "list_spaces"
    /\ UNCHANGED <<arg, text, listFrame>>

\* `filtered_text = re.sub(r"\s+", " ", filtered_text).strip()`, `return`
ListNormalise ==
    /\ pc = "list_spaces"
    /\ filtered_text' = NormaliseSpaces(filtered_text)
    /\ pc' = "list_done"
    /\ UNCHANGED <<arg, text, listFrame>>

NextList ==
    \/ ListBegin
    \/ ListDotMarkers
    \/ ListParenMarkers
    \/ ListWrappedMarkers
    \/ ListNormalise

SpecList == InitList /\ [][NextList]_vars

(***************************************************************************)
(* Properties of filter_numbered_lists, stated for SpecList.               *)
(***************************************************************************)
\* The dialects the documentation lists: digits and one of . ．。 ) ） 、
\* or digits in ( ) or in （ ）.  The position of the last character of the
\* marker that starts at position i of s, 0 when none starts there.
ClaimedMarkerLast(s, i) ==
    LET b == SkipDigits(s, i)
        c == SkipDigits(s, i + 1)
    IN  IF /\ b > i
           /\ b <= Len(s)
           /\ s[b] \in {".", "U+FF0E", "U+3002", ")", "U+FF09", "U+3001"}
        THEN b
        ELSE IF /\ i <= Len(s)
                /\ c > i + 1
                /\ c <= Len(s)
                /\ \/ s[i] = "(" /\ s[c] = ")"
                   \/ s[i] = "U+FF08" /\ s[c] = "U+FF09"
        THEN c
        ELSE 0

\* s without the markers that stand at the start of a line.
RECURSIVE WithoutLeadingMarkersFrom(_, _)
WithoutLeadingMarkersFrom(s, i) ==
    IF i > Len(s) THEN <<>>
    ELSE LET m == IF AtLineStart(s, i) THEN ClaimedMarkerLast(s, i) ELSE 0
         IN  IF m > 0 THEN WithoutLeadingMarkersFrom(s, m + 1)
             ELSE <<s[i]>> \o WithoutLeadingMarkersFrom(s, i + 1)

NotSpace(c) == ~IsSpace(c)

\* Whether a can be had from b by deleting characters of b.
RECURSIVE IsSubsequenceFrom(_, _, _, _)
IsSubsequenceFrom(a, i, b, j) ==
    IF i > Len(a) THEN TRUE
    ELSE IF j > Len(b) THEN FALSE
    ELSE IF a[i] = b[j] THEN IsSubsequenceFrom(a, i + 1, b, j + 1)
    ELSE IsSubsequenceFrom(a, i, b, j + 1)

\* C8: the marker every line of the input starts with, in any listed
\* dialect, is removed: the returned text is made of characters of the
\* input that belong to no such marker (whitespace apart).
C8_LeadingMarkersRemoved ==
    pc = "list_done" =>
        IsSubsequenceFrom(SelectSeq(filtered_text, NotSpace), 1,
                          SelectSeq(WithoutLeadingMarkersFrom(arg, 1), NotSpace), 1)

\* Whether position i of s lies behind non-whitespace text of its line.
BehindTextOnLine(s, i) ==
    \E k \in 1..(i - 1) :
        /\ ~IsSpace(s[k])
        /\ \A n \in k..(i - 1) : s[n] # "\n"

\* C9: a marker that stands behind non-whitespace text of its line (and is
\* no part of a longer number or of a wrapped marker) is still there in the
\* returned text.
C9_InnerMarkersKept ==
    pc = "list_done" =>
        \A i \in 2..Len(arg) :
            LET m == ClaimedMarkerLast(arg, i)
            IN  (/\ m > 0
                 /\ BehindTextOnLine(arg, i)
                 /\ arg[i - 1] \notin Digits \cup WrapOpeners)
                => Occurs(SubSeq(arg, i, m), filtered_text)

(***************************************************************************)
(* PerformanceSession: mark_tts_start, mark_tts_end, finalize              *)
(*                                                                         *)
(* The methods hold no await, so the calls of overlapping asyncio tasks    *)
(* interleave as whole calls, in any order.                                *)
(***************************************************************************)
\* PerformanceSession.__init__: the TTS fields of a new session.
InitSession ==
    /\ NestedIdle
    /\ TtsIdle
    /\ FmtIdle
    /\ pc = "session"
    /\ arg = <<>>
    /\ text = <<>>
    /\ filtered_text = <<>>
    /\ idx = 0
    /\ tts_start_time = NoTime
    /\ tts_end_time = NoTime
    /\ tts_calls = 0
    /\ total_tts_time = 0
    /\ metrics = NoTime
    /\ now = 0
    /\ calls = <<>>
    /\ additions = 0

\* Time passes between two calls: time.perf_counter() never goes back.
Tick ==
    /\ now < MaxClock
    /\ now' = now + 1
    /\ UNCHANGED <<tts_start_time, tts_end_time, tts_calls, total_tts_time,
                   metrics, calls, additions, sessionFrame>>

\* mark_tts_start()
MarkTtsStart ==
    /\ Len(calls) < MaxCalls
    /\ tts_start_time' = now
    /\ tts_calls' = tts_calls + 1
    /\ calls' = Append(calls, "mark_tts_start")
    /\ UNCHANGED <<tts_end_time, total_tts_time, metrics, now, additions,
                   sessionFrame>>

\* A plausible slip: mark_tts_end without `if self.tts_start_time is not None`.
MarkTtsEndUnguarded ==
    /\ Len(calls) < MaxCalls
    /\ calls' = Append(calls, "mark_tts_end")
    /\ total_tts_time' = total_tts_time + (now - tts_start_time) * 1000
    /\ tts_end_time' = now
    /\ tts_start_time' = NoTime
    /\ additions' = additions + 1
    /\ UNCHANGED <<tts_calls, metrics, now, sessionFrame>>

\* mark_tts_end()
MarkTtsEnd ==
    /\ Len(calls) < MaxCalls
    /\ calls' = Append(calls, "mark_tts_end")
    /\ IF tts_start_time # NoTime
       THEN /\ total_tts_time' = total_tts_time + (now - tts_start_time) * 1000
            /\ tts_end_time' = now
            /\ tts_start_time' = NoTime
            /\ additions' = additions + 1
       ELSE UNCHANGED <<total_tts_time, tts_end_time, tts_start_time, additions>>
    /\ UNCHANGED <<tts_calls, metrics, now, sessionFrame>>

\* finalize(): `metrics["tts_latency_ms"] = self.total_tts_time`
Finalize ==
    /\ Len(calls) < MaxCalls
    /\ calls' = Append(calls, "finalize")
    /\ metrics' = total_tts_time
    /\ UNCHANGED <<tts_start_time, tts_end_time, tts_calls, total_tts_time,
                   now, additions, sessionFrame>>

NextSession ==
    \/ Tick
    \/ MarkTtsStart
    \/ MarkTtsEnd
    \/ Finalize

SpecSession == InitSession /\ [][NextSession]_vars

(***************************************************************************)
(* Properties of PerformanceSession, stated for SpecSession.               *)
(***************************************************************************)
\* The number of calls of method m among the calls made.
CallsOf(m) == Cardinality({i \in 1..Len(calls) : calls[i] = m})

\* C10: after any interleaving of mark_tts_start and mark_tts_end calls,
\* tts_calls is the number of mark_tts_start calls, no more durations were
\* added to total_tts_time than tts_calls, tts_start_time is unset after
\* every mark_tts_end, and a mark_tts_end with no start pending changes no
\* field of the session.
C10_TtsBookkeeping ==
    /\ [](/\ tts_calls = CallsOf("mark_tts_start")
          /\ additions <= tts_calls
          /\ (calls # <<>> /\ calls[Len(calls)] = "mark_tts_end")
                => tts_start_time = NoTime)
    /\ [][(/\ calls' = Append(calls, "mark_tts_end")
           /\ tts_start_time = NoTime)
          => UNCHANGED <<tts_start_time, tts_end_time, tts_calls,
                         total_tts_time, metrics>>]_vars

\* Two TTS tasks overlapped: both started before either ended, the first
\* mark_tts_end added a duration and the second found no start pending.
C10_Witness ==
    /\ calls = <<"mark_tts_start", "mark_tts_start", "mark_tts_end", "mark_tts_end">>
    /\ tts_calls = 2
    /\ additions = 1
    /\ total_tts_time = 1000
    /\ tts_start_time = NoTime

=============================================================================
